---------------------------- MODULE Spec2Model ----------------------------
(***************************************************************************)
(* A model of pingrunner.py (the "Space Invader" variant): the game loop   *)
(* of main(), the loop driver's handle_event / update / draw, and the      *)
(* entities Hero, Bullet, Enemy and Mob with their shared, mutable         *)
(* ctx.game_objects list.                                                  *)
(*                                                                         *)
(* Python's list iterator is modelled as it works: it keeps a count `it`   *)
(* of the items it has yielded, and each step yields the item at that      *)
(* (0-based) index of the list as the list is NOW, stopping when the count *)
(* has reached the current length.  Appending or deleting while a          *)
(* for-loop runs is therefore seen by the loop.                            *)
(***************************************************************************)
EXTENDS Integers, Sequences, FiniteSets, TLC

(***************************************************************************)
(* Program constants (main, Hero.handle_event, Hero.update).               *)
(***************************************************************************)
ScreenWidth == 400
ScreenHeight == 300
HeroX0 == 200
HeroY0 == 275
HeroWidth == 50
HeroHeight == 20
HeroStep == 3
BulletWidth == 5
BulletHeight == 10
BulletSpeed == 3
EnemyWidth == 35
EnemyHeight == 35
EnemyY0 == 5
MobSpeed == 3
MobOffset == 40
EnemyX0 == <<5, 55, 105, 155, 205>>

(***************************************************************************)
(* Bounds of the model.  The loop runs MaxTicks ticks; the player acts     *)
(* (events arrive, keys are held) only in every InputPeriod-th tick; at    *)
(* most MaxEvents events are pending per tick; at most MaxBullets bullets  *)
(* are fired and the Hero is moved in at most MaxMoves ticks.              *)
(***************************************************************************)
MaxTicks == 135
InputPeriod == 25
MaxEvents == 2
MaxBullets == 2
MaxMoves == 1

VARIABLES
    game_objects,   \* ctx.game_objects: the live entity list, in order
    events,         \* the events of pygame.event.get() not yet handled this tick
    pc,             \* where main's loop is
    it,             \* items yielded so far by the running for-loop over ctx.game_objects
    tick,           \* number of the tick being run (1-based)
    visited,        \* history: ids whose update ran in this tick's update phase, in order
    created,        \* history: per bullet created, the tick and position of its creation
    moves,          \* history: number of Hero updates with a key held
    before,         \* history: ctx.game_objects as it was when the running handle_event began
    pressed         \* pygame.key.get_pressed() of the last Hero.update: <<K_LEFT, K_RIGHT>>

vars ==
    <<game_objects, events, pc, it, tick, visited, created, moves, before, pressed>>

HeroId == 1
MobId == 2
BulletId(n) == 2 + n

(***************************************************************************)
(* pygame.Rect built from float arguments: each is truncated toward zero.  *)
(* The arguments are pos - size/2, given here doubled (2*pos - size).      *)
(***************************************************************************)
\* mutant of TruncHalf: the float is floored instead of truncated
TruncHalf_floor(n) == n \div 2

TruncHalf(n) == IF n >= 0 THEN n \div 2 ELSE -((-n) \div 2)

pygame_Rect(left2, top2, w, h) ==
    [x |-> TruncHalf(left2), y |-> TruncHalf(top2), w |-> w, h |-> h]

Hero_get_rect(self) ==
    pygame_Rect(2 * self.pos[1] - self.width, 2 * self.pos[2] - self.height,
                self.width, self.height)

Bullet_get_rect(self) ==
    pygame_Rect(2 * self.pos[1] - self.width, 2 * self.pos[2] - self.height,
                self.width, self.height)

Enemy_get_rect(self) ==
    pygame_Rect(2 * self.pos[1] - self.width, 2 * self.pos[2] - self.height,
                self.width, self.height)

\* pygame.Rect.colliderect: strict overlap of two axis-aligned rectangles
colliderect(A, B) ==
    /\ A.x < B.x + B.w
    /\ A.y < B.y + B.h
    /\ A.x + A.w > B.x
    /\ A.y + A.h > B.y

(***************************************************************************)
(* The objects main() constructs.                                          *)
(***************************************************************************)
Enemy(n, x, y) ==
    [id |-> n, pos |-> <<x, y>>, width |-> EnemyWidth, height |-> EnemyHeight,
     previous_x |-> 0]

Hero(x, y) ==
    [kind |-> "Hero", id |-> HeroId, pos |-> <<x, y>>,
     width |-> HeroWidth, height |-> HeroHeight]

Mob(ms) ==
    [kind |-> "Mob", id |-> MobId, members |-> ms,
     speed |-> MobSpeed, offset |-> MobOffset]

Bullet(n, p) ==
    [kind |-> "Bullet", id |-> BulletId(n), pos |-> p,
     width |-> BulletWidth, height |-> BulletHeight, speed |-> BulletSpeed]

InitialObjects ==
    << Hero(HeroX0, HeroY0),
       Mob([n \in 1..Len(EnemyX0) |-> Enemy(n, EnemyX0[n], EnemyY0)]) >>

Init ==
    /\ game_objects = InitialObjects
    /\ events = <<>>
    /\ pc = "poll"
    /\ it = 0
    /\ tick = 1
    /\ visited = <<>>
    /\ created = <<>>
    /\ moves = 0
    /\ before = <<>>
    /\ pressed = <<FALSE, FALSE>>


(***************************************************************************)
(* Input of one tick: pygame.event.get() returns the pending events.       *)
(***************************************************************************)
EventTypes == {"QUIT", "KEYDOWN_SPACE", "OTHER"}

EventSeqs == UNION {[1..k -> EventTypes] : k \in 0..MaxEvents}

InputTick == tick % InputPeriod = 0

NumFire(q) == Cardinality({k \in 1..Len(q) : q[k] = "KEYDOWN_SPACE"})

\* del s[i] of a Python list, i given 1-based
DelAt(s, i) == SubSeq(s, 1, i - 1) \o SubSeq(s, i + 1, Len(s))

(***************************************************************************)
(* Hero                                                                    *)
(***************************************************************************)
\* mutant of Hero_handle_event: the key of the event is not looked at
Hero_handle_event_anykey(objs, self, event, n) ==
    Append(objs, Bullet(n, self.pos))

\* mutant of Hero_handle_event: the new Bullet is put at the front of the list
Hero_handle_event_front(objs, self, event, n) ==
    IF event = "KEYDOWN_SPACE"
    THEN <<Bullet(n, self.pos)>> \o objs
    ELSE objs

\* Hero.handle_event: a space key-down appends a Bullet at the Hero's pos;
\* n is the number of the bullet object created.
Hero_handle_event(objs, self, event, n) ==
    IF event = "KEYDOWN_SPACE"
    THEN Append(objs, Bullet(n, self.pos))
    ELSE objs

\* mutant of Hero_update: the Hero is kept on the screen
Hero_update_clamped(self, left, right) ==
    LET x0 == self.pos[1]
        x1 == IF left /\ x0 - HeroStep >= 0 THEN x0 - HeroStep ELSE x0
        x2 == IF right /\ x1 + HeroStep <= ScreenWidth THEN x1 + HeroStep ELSE x1
    IN  [self EXCEPT !.pos = <<x2, self.pos[2]>>]

\* Hero.update: left/right are pressed[K_LEFT], pressed[K_RIGHT]
Hero_update(self, left, right) ==
    LET x0 == self.pos[1]
        x1 == IF left THEN x0 - HeroStep ELSE x0
        x2 == IF right THEN x1 + HeroStep ELSE x1
    IN  [self EXCEPT !.pos = <<x2, self.pos[2]>>]

(***************************************************************************)
(* Mob and Enemy                                                           *)
(***************************************************************************)
\* mutant of Enemy_update: previous_x is never recorded
Enemy_update_skip(member) == member

\* Enemy.update
Enemy_update(member) == [member EXCEPT !.previous_x = member.pos[1]]

\* the body of Mob.update's loop for one member
Mob_update_member(member, speed, offset, width) ==
    LET x == (member.pos[1] + speed) % width
        y == IF member.previous_x > x THEN member.pos[2] + offset
                                       ELSE member.pos[2]
    IN  Enemy_update([member EXCEPT !.pos = <<x, y>>])

\* mutant of Mob_update: when any member wraps, the whole formation steps down
Mob_update_formation(self) ==
    LET width == ScreenWidth
        Wraps(e) == e.previous_x > (e.pos[1] + self.speed) % width
        any == \E k \in 1..Len(self.members) : Wraps(self.members[k])
    IN  [self EXCEPT !.members =
            [k \in 1..Len(self.members) |->
                LET e == self.members[k]
                    x == (e.pos[1] + self.speed) % width
                    y == IF any THEN e.pos[2] + self.offset ELSE e.pos[2]
                IN  Enemy_update([e EXCEPT !.pos = <<x, y>>])]]

\* Mob.update: the loop visits every member once (members is not changed by it)
Mob_update(self) ==
    [self EXCEPT !.members =
        [k \in 1..Len(self.members) |->
            Mob_update_member(self.members[k], self.speed, self.offset, ScreenWidth)]]

(***************************************************************************)
(* Bullet                                                                  *)
(***************************************************************************)
\* Bullet.update, lines 86-89: move the bullet
Bullet_move(self) ==
    [self EXCEPT !.pos = <<self.pos[1], self.pos[2] - self.speed>>]

\* lines 95-99: index of the first Mob in ctx.game_objects, 0 for None
FindMob(objs) ==
    IF \E k \in 1..Len(objs) : objs[k].kind = "Mob"
    THEN CHOOSE k \in 1..Len(objs) :
            /\ objs[k].kind = "Mob"
            /\ \A j \in 1..(k - 1) : objs[j].kind # "Mob"
    ELSE 0

\* mutant of FirstHit: the collision test looks at the x extent only
FirstHit_xonly(self, members) ==
    LET XOverlap(A, B) == A.x < B.x + B.w /\ A.x + A.w > B.x
        hits == {k \in 1..Len(members) :
                    XOverlap(Bullet_get_rect(self), Enemy_get_rect(members[k]))}
    IN  IF hits = {} THEN 0
        ELSE CHOOSE k \in hits : \A j \in hits : k <= j

\* lines 100-107: index of the first member the bullet collides with, 0 for none
FirstHit(self, members) ==
    LET hits == {k \in 1..Len(members) :
                    colliderect(Bullet_get_rect(self), Enemy_get_rect(members[k]))}
    IN  IF hits = {} THEN 0
        ELSE CHOOSE k \in hits : \A j \in hits : k <= j

\* lines 109-112: index of the first entry that is the object with this id, 0 for none
FindSelf(objs, id) ==
    IF \E k \in 1..Len(objs) : objs[k].id = id
    THEN CHOOSE k \in 1..Len(objs) :
            /\ objs[k].id = id
            /\ \A j \in 1..(k - 1) : objs[j].id # id
    ELSE 0

\* mutant of RemoveSelf: deletes the first entry instead of the bullet's own
RemoveSelf_first(objs, id) == DelAt(objs, 1)

\* lines 108-112: delete the bullet itself from ctx.game_objects
RemoveSelf(objs, id) ==
    IF FindSelf(objs, id) = 0 THEN objs ELSE DelAt(objs, FindSelf(objs, id))

\* mutant of Bullet_update: the loop over the members has no break, and every
\* member the bullet intersects is removed
Bullet_update_all(objs, i) ==
    LET self  == Bullet_move(objs[i])
        moved == [objs EXCEPT ![i] = self]
        m     == FindMob(moved)
        Miss(e) == ~colliderect(Bullet_get_rect(self), Enemy_get_rect(e))
    IN  IF FirstHit(self, moved[m].members) = 0
        THEN moved
        ELSE RemoveSelf([moved EXCEPT ![m].members = SelectSeq(@, Miss)], self.id)

\* mutant of Bullet_update: a Mob that loses its last member is removed from
\* ctx.game_objects too
Bullet_update_dropmob(objs, i) ==
    LET self  == Bullet_move(objs[i])
        moved == [objs EXCEPT ![i] = self]
        m     == FindMob(moved)
        idx   == FirstHit(self, moved[m].members)
        hit   == RemoveSelf([moved EXCEPT ![m].members = DelAt(@, idx)], self.id)
    IN  IF idx = 0
        THEN moved
        ELSE IF Len(moved[m].members) = 1 THEN DelAt(hit, m) ELSE hit

\* mutant of Bullet_update: the member hit takes with it every bullet that
\* reaches it in this tick, not only the bullet being updated
Bullet_update_sweep(objs, i) ==
    LET self  == Bullet_move(objs[i])
        moved == [objs EXCEPT ![i] = self]
        m     == FindMob(moved)
        idx   == FirstHit(self, moved[m].members)
        e     == moved[m].members[idx]
        Stays(o) == \/ o.kind # "Bullet"
                    \/ /\ o.id # self.id
                       /\ ~colliderect(Bullet_get_rect(Bullet_move(o)), Enemy_get_rect(e))
    IN  IF idx = 0
        THEN moved
        ELSE SelectSeq([moved EXCEPT ![m].members = DelAt(@, idx)], Stays)

\* mutant of Bullet_update: a bullet that hits nothing and has left the screen
\* through the top edge is removed as well
Bullet_update_offscreen(objs, i) ==
    LET self  == Bullet_move(objs[i])
        moved == [objs EXCEPT ![i] = self]
        m     == FindMob(moved)
        idx   == FirstHit(self, moved[m].members)
    IN  IF idx = 0
        THEN IF Bullet_get_rect(self).y + Bullet_get_rect(self).h <= 0
             THEN RemoveSelf(moved, self.id)
             ELSE moved
        ELSE RemoveSelf([moved EXCEPT ![m].members = DelAt(@, idx)], self.id)

\* Bullet.update on the bullet at index i of objs (a Mob is in objs)
Bullet_update(objs, i) ==
    LET self  == Bullet_move(objs[i])
        moved == [objs EXCEPT ![i] = self]
        m     == FindMob(moved)
        idx   == FirstHit(self, moved[m].members)
    IN  IF idx = 0
        THEN moved
        ELSE RemoveSelf([moved EXCEPT ![m].members = DelAt(@, idx)], self.id)

(***************************************************************************)
(* main's loop                                                             *)
(***************************************************************************)
\* line 259: pygame.event.get()
PollEvents ==
    /\ pc = "poll"
    /\ \E q \in (IF InputTick THEN EventSeqs ELSE {<<>>}) :
          /\ Len(created) + NumFire(q) <= MaxBullets
          /\ events' = q
    /\ pc' = "events"
    /\ UNCHANGED <<game_objects, it, tick, visited, created, moves, before, pressed>>

\* mutant of HandleQuit: the QUIT event is passed on like any other event
HandleQuit_noexit ==
    /\ pc = "events"
    /\ events # <<>>
    /\ Head(events) = "QUIT"
    /\ pc' = "dispatch"
    /\ it' = 0
    /\ before' = game_objects
    /\ UNCHANGED <<game_objects, events, tick, visited, created, moves, pressed>>

\* handle_event, lines 183-185: a QUIT event ends the process
HandleQuit ==
    /\ pc = "events"
    /\ events # <<>>
    /\ Head(events) = "QUIT"
    /\ pc' = "exited"
    /\ UNCHANGED <<game_objects, events, it, tick, visited, created, moves, before, pressed>>

\* handle_event, line 188: the for-loop over ctx.game_objects starts
HandleEventBegin ==
    /\ pc = "events"
    /\ events # <<>>
    /\ Head(events) # "QUIT"
    /\ pc' = "dispatch"
    /\ it' = 0
    /\ before' = game_objects
    /\ UNCHANGED <<game_objects, events, tick, visited, created, moves, pressed>>

\* handle_event, line 189, on a Hero
DispatchHero ==
    /\ pc = "dispatch"
    /\ it < Len(game_objects)
    /\ game_objects[it + 1].kind = "Hero"
    /\ game_objects' = Hero_handle_event(game_objects, game_objects[it + 1],
                                         Head(events), Len(created) + 1)
    /\ created' = IF Head(events) = "KEYDOWN_SPACE"
                  THEN Append(created, [tick |-> tick, pos |-> game_objects[it + 1].pos])
                  ELSE created
    /\ it' = it + 1
    /\ UNCHANGED <<events, pc, tick, visited, moves, before, pressed>>

\* handle_event, line 189, on a Mob (passes the event to its members, which
\* ignore it) or on a Bullet (GameObject.handle_event, which ignores it)
DispatchOther ==
    /\ pc = "dispatch"
    /\ it < Len(game_objects)
    /\ game_objects[it + 1].kind \in {"Mob", "Bullet"}
    /\ it' = it + 1
    /\ UNCHANGED <<game_objects, events, pc, tick, visited, created, moves, before, pressed>>

\* handle_event returns: the iterator is exhausted
DispatchDone ==
    /\ pc = "dispatch"
    /\ it >= Len(game_objects)
    /\ events' = Tail(events)
    /\ pc' = "events"
    /\ before' = <<>>
    /\ UNCHANGED <<game_objects, it, tick, visited, created, moves, pressed>>

\* mutant of UpdateBegin: update(ctx) is called from inside the event loop
UpdateBegin_early ==
    /\ pc = "events"
    /\ pc' = "update"
    /\ it' = 0
    /\ visited' = <<>>
    /\ UNCHANGED <<game_objects, events, tick, created, moves, before, pressed>>

\* line 261: all events are handled, update(ctx) starts its for-loop
UpdateBegin ==
    /\ pc = "events"
    /\ events = <<>>
    /\ pc' = "update"
    /\ it' = 0
    /\ visited' = <<>>
    /\ UNCHANGED <<game_objects, events, tick, created, moves, before, pressed>>

AllKeys == BOOLEAN \X BOOLEAN

NoKeys == {<<FALSE, FALSE>>}

\* update, line 194, on the Hero; the keys held, <<K_LEFT, K_RIGHT>>, are an
\* input of the step, one of `keys`; `count` says whether moves counts it
UpdateHeroKeys(keys, count) ==
    /\ pc = "update"
    /\ it < Len(game_objects)
    /\ game_objects[it + 1].kind = "Hero"
    /\ \E k \in keys :
          /\ game_objects' = [game_objects EXCEPT
                                 ![it + 1] = Hero_update(@, k[1], k[2])]
          /\ moves' = IF (k[1] \/ k[2]) /\ count THEN moves + 1 ELSE moves
          /\ pressed' = k
    /\ visited' = Append(visited, game_objects[it + 1].id)
    /\ it' = it + 1
    /\ UNCHANGED <<events, pc, tick, created, before>>

\* the keys are held only in an input tick, in at most MaxMoves ticks
UpdateHero ==
    UpdateHeroKeys(IF InputTick /\ moves < MaxMoves THEN AllKeys ELSE NoKeys, TRUE)

\* mutant of UpdateMob: a Mob without members ends the process
UpdateMob_needsmembers ==
    /\ pc = "update"
    /\ it < Len(game_objects)
    /\ game_objects[it + 1].kind = "Mob"
    /\ game_objects' = [game_objects EXCEPT ![it + 1] = Mob_update(@)]
    /\ pc' = IF game_objects[it + 1].members = <<>> THEN "crashed" ELSE pc
    /\ visited' = Append(visited, game_objects[it + 1].id)
    /\ it' = it + 1
    /\ UNCHANGED <<events, tick, created, moves, before, pressed>>

\* update, line 194, on the Mob
UpdateMob ==
    /\ pc = "update"
    /\ it < Len(game_objects)
    /\ game_objects[it + 1].kind = "Mob"
    /\ game_objects' = [game_objects EXCEPT ![it + 1] = Mob_update(@)]
    /\ visited' = Append(visited, game_objects[it + 1].id)
    /\ it' = it + 1
    /\ UNCHANGED <<events, pc, tick, created, moves, before, pressed>>

\* update, line 194, on a Bullet; without a Mob in the list, mob is None and
\* line 100 raises, which ends the process
UpdateBullet ==
    /\ pc = "update"
    /\ it < Len(game_objects)
    /\ game_objects[it + 1].kind = "Bullet"
    /\ IF FindMob(game_objects) = 0
       THEN /\ pc' = "crashed"
            /\ game_objects' = [game_objects EXCEPT ![it + 1] = Bullet_move(@)]
       ELSE /\ pc' = pc
            /\ game_objects' = Bullet_update(game_objects, it + 1)
    /\ visited' = Append(visited, game_objects[it + 1].id)
    /\ it' = it + 1
    /\ UNCHANGED <<events, tick, created, moves, before, pressed>>

\* update returns: the iterator is exhausted
UpdateDone ==
    /\ pc = "update"
    /\ it >= Len(game_objects)
    /\ pc' = "draw"
    /\ UNCHANGED <<game_objects, events, it, tick, visited, created, moves, before, pressed>>

\* line 262: draw(ctx) draws every object; it changes no game state
Draw ==
    /\ pc = "draw"
    /\ pc' = "throttle"
    /\ UNCHANGED <<game_objects, events, it, tick, visited, created, moves, before, pressed>>

\* line 263: ctx.clock.tick(60), and the loop starts over; the model stops
\* after tick number `last`
ThrottleTo(last) ==
    /\ pc = "throttle"
    /\ tick < last
    /\ tick' = tick + 1
    /\ pc' = "poll"
    /\ UNCHANGED <<game_objects, events, it, visited, created, moves, before, pressed>>

Throttle == ThrottleTo(MaxTicks)

Next ==
    \/ PollEvents
    \/ HandleQuit
    \/ HandleEventBegin
    \/ DispatchHero
    \/ DispatchOther
    \/ DispatchDone
    \/ UpdateBegin
    \/ UpdateHero
    \/ UpdateMob
    \/ UpdateBullet
    \/ UpdateDone
    \/ Draw
    \/ Throttle

Spec == Init /\ [][Next]_vars

(***************************************************************************)
(* Bullet.update on its own: a Hero has just fired one or two bullets, the *)
(* Hero and the Mob have been updated in this tick, and the Mob's members  *)
(* (at most MaxMembers) stand anywhere on a small grid around the bullets, *)
(* several of them possibly within one bullet's reach.                     *)
(***************************************************************************)
MaxMembers == 3

NearPositions == {<<x, y>> : x \in {190, 200, 300}, y \in {245, 285}}

MemberSeqs == UNION {[1..n -> NearPositions] : n \in 1..MaxMembers}

MembersAt(ps) ==
    [n \in 1..Len(ps) |-> Enemy_update(Enemy(n, ps[n][1], ps[n][2]))]

BulletInit ==
    /\ \E ps \in MemberSeqs, nb \in 1..2 :
          game_objects = << Hero(HeroX0, HeroY0), Mob(MembersAt(ps)) >>
                            \o [n \in 1..nb |-> Bullet(n, <<HeroX0, HeroY0>>)]
    /\ created = [n \in 1..(Len(game_objects) - 2) |->
                     [tick |-> 1, pos |-> <<HeroX0, HeroY0>>]]
    /\ events = <<>>
    /\ pc = "update"
    /\ it = 2
    /\ tick = 1
    /\ visited = <<HeroId, MobId>>
    /\ moves = 0
    /\ before = <<>>
    /\ pressed = <<FALSE, FALSE>>

BulletSpec == BulletInit /\ [][UpdateBullet]_vars

(***************************************************************************)
(* main's loop with the keys as the only input: no event arrives, and left *)
(* and right may be held in any tick, so that the Hero can walk across and *)
(* off the screen within MaxTicks ticks.                                   *)
(***************************************************************************)
PollNoEvents ==
    /\ pc = "poll"
    /\ events' = <<>>
    /\ pc' = "events"
    /\ UNCHANGED <<game_objects, it, tick, visited, created, moves, before, pressed>>

UpdateHeroFree == UpdateHeroKeys(AllKeys, FALSE)

HeroNext ==
    \/ PollNoEvents
    \/ UpdateBegin
    \/ UpdateHeroFree
    \/ UpdateMob
    \/ UpdateDone
    \/ Draw
    \/ Throttle

HeroSpec == Init /\ [][HeroNext]_vars

(***************************************************************************)
(* main's loop on a long run: nothing happens until tick FireFrom, by when *)
(* the members have wrapped down to the Hero's height; from then on a fire *)
(* event arrives in every FirePeriod-th tick, with no key held, until the  *)
(* run stops after LongTicks ticks.                                        *)
(***************************************************************************)
LongTicks == 1020
FireFrom == 850
FirePeriod == 3

PollAutoFire ==
    /\ pc = "poll"
    /\ events' = IF tick >= FireFrom /\ tick % FirePeriod = 0
                 THEN <<"KEYDOWN_SPACE">>
                 ELSE <<>>
    /\ pc' = "events"
    /\ UNCHANGED <<game_objects, it, tick, visited, created, moves, before, pressed>>

UpdateHeroIdle == UpdateHeroKeys(NoKeys, FALSE)

ThrottleLong == ThrottleTo(LongTicks)

LongNext ==
    \/ PollAutoFire
    \/ HandleEventBegin
    \/ DispatchHero
    \/ DispatchOther
    \/ DispatchDone
    \/ UpdateBegin
    \/ UpdateHeroIdle
    \/ UpdateMob
    \/ UpdateBullet
    \/ UpdateDone
    \/ Draw
    \/ ThrottleLong

LongSpec == Init /\ [][LongNext]_vars

(***************************************************************************)
(* Properties                                                              *)
(***************************************************************************)
Objs(kind) == {k \in 1..Len(game_objects) : game_objects[k].kind = kind}

Ids(objs) == {objs[k].id : k \in 1..Len(objs)}

TimesVisited(id) == Cardinality({j \in 1..Len(visited) : visited[j] = id})

\* C1: when the update phase of a tick has ended, update has run exactly once
\* on every entity that is in ctx.game_objects at that moment (none skipped,
\* none visited twice), also when a Bullet deleted itself during the phase.
C1_EveryObjectUpdatedOnce ==
    pc = "draw" =>
        \A k \in 1..Len(game_objects) : TimesVisited(game_objects[k].id) = 1

\* the bullet's rectangle lies wholly above or below the 400 x 300 screen
OffScreen(b) ==
    \/ Bullet_get_rect(b).y + Bullet_get_rect(b).h <= 0
    \/ Bullet_get_rect(b).y >= ScreenHeight

\* C2: no bullet stays in ctx.game_objects once its position has left the
\* visible vertical bounds of the screen: when a tick's update phase has
\* ended, every bullet still in the collection is on the screen (a bullet is
\* removed when it hits a member or when it leaves the screen).
C2_NoBulletOffScreen ==
    pc \in {"draw", "throttle", "poll"} =>
        \A k \in Objs("Bullet") : ~OffScreen(game_objects[k])

\* the Mob of ctx.game_objects and the members a bullet's rectangle intersects
TheMob(objs) == objs[CHOOSE k \in 1..Len(objs) : objs[k].kind = "Mob"]

HitsOf(b, ms) ==
    {k \in 1..Len(ms) : colliderect(Bullet_get_rect(b), Enemy_get_rect(ms[k]))}

\* the next step of update's loop is a Bullet.update / a Mob.update
AtBullet ==
    /\ pc = "update"
    /\ it < Len(game_objects)
    /\ game_objects[it + 1].kind = "Bullet"

AtMob ==
    /\ pc = "update"
    /\ it < Len(game_objects)
    /\ game_objects[it + 1].kind = "Mob"

\* the bullet about to be updated will, once moved, intersect a member
BulletWillHit ==
    /\ AtBullet
    /\ HitsOf(Bullet_move(game_objects[it + 1]), TheMob(game_objects).members) # {}

\* the update that just ran was a bullet's, and it removed that bullet
BulletJustRemoved ==
    /\ pc = "update"
    /\ visited # <<>>
    /\ visited[Len(visited)] \notin Ids(game_objects)

C3_Step ==
    BulletWillHit =>
        LET b   == game_objects[it + 1]
            ms  == TheMob(game_objects).members
            ms2 == TheMob(game_objects').members
        IN  /\ \E j \in HitsOf(Bullet_move(b), ms) : ms2 = DelAt(ms, j)
            /\ Len(game_objects') + Len(ms2) = Len(game_objects) + Len(ms) - 2
            /\ Len(game_objects') = Len(game_objects) - 1
            /\ b.id \notin Ids(game_objects')
            /\ \A k \in 1..Len(game_objects) :
                  k # it + 1 =>
                     LET k2 == IF k < it + 1 THEN k ELSE k - 1
                     IN  IF game_objects[k].kind = "Mob"
                         THEN game_objects'[k2] =
                                 [game_objects[k] EXCEPT !.members = ms2]
                         ELSE game_objects'[k2] = game_objects[k]

\* C3: a Bullet.update that finds the bullet intersecting a member removes one
\* intersecting member from mob.members and exactly that bullet from
\* ctx.game_objects (the entity count drops by exactly 2); every other member,
\* the Hero, the Mob and every other bullet stay, unchanged and in order.
C3_HitRemovesBulletAndOneMember == [][C3_Step]_vars

C3_Witness ==
    /\ BulletJustRemoved
    /\ Len(TheMob(game_objects).members) = Len(EnemyX0) - 1
    /\ Objs("Bullet") # {}

C4_Step ==
    AtMob =>
        LET mob == game_objects[it + 1]
            ms  == mob.members
            ms2 == game_objects'[it + 1].members
        IN  /\ Len(ms2) = Len(ms)
            /\ \A k \in 1..Len(ms) :
                  /\ ms2[k].pos[1] = (ms[k].pos[1] + mob.speed) % ScreenWidth
                  /\ ms2[k].pos[2] = IF ms2[k].pos[1] < ms[k].pos[1]
                                     THEN ms[k].pos[2] + mob.offset
                                     ELSE ms[k].pos[2]

QuitNext ==
    /\ pc = "events"
    /\ events # <<>>
    /\ Head(events) = "QUIT"

C5_Step ==
    /\ QuitNext => /\ pc' = "exited"
                   /\ UNCHANGED <<game_objects, events, it, tick, visited, created>>
    /\ pc # "exited"

\* C5: handling a QUIT event stops the loop at once: that step dispatches
\* nothing and changes no entity, and from then on no step is taken at all (no
\* further dispatch, update or draw, in that tick or later).
C5_QuitStopsLoop == [][C5_Step]_vars

\* the loop has exited with an event still pending behind the QUIT event
C5_Witness ==
    /\ pc = "exited"
    /\ Len(events) >= 2
    /\ Head(events) = "QUIT"

PhaseOrder ==
    { <<"poll", "events">>, <<"events", "dispatch">>, <<"dispatch", "events">>,
      <<"events", "update">>, <<"events", "exited">>, <<"update", "draw">>,
      <<"draw", "throttle">>, <<"throttle", "poll">> }

C6_Step ==
    /\ pc' # pc => <<pc, pc'>> \in PhaseOrder
    /\ pc' = "update" => events = <<>>
    /\ (visited' # visited /\ visited' # <<>>) => (pc = "update" /\ events = <<>>)
    /\ (pc = "dispatch" /\ pc' = "dispatch") => it' = it + 1
    /\ (pc = "update" /\ pc' = "update") => it' = it + 1
    /\ pc' = "draw" => it >= Len(game_objects)
    /\ tick' # tick => pc = "throttle"

\* C6: within a tick the phases run in the order poll, dispatch of every
\* pending event to the entities in collection order, update, draw, throttle:
\* no entity's update runs while an event of the tick is pending, and draw
\* runs only when update's loop has ended.
C6_PhasesInOrder == [][C6_Step]_vars

\* a tick in which two events were dispatched has been updated and drawn
C6_Witness ==
    /\ pc = "throttle"
    /\ Len(created) >= 2
    /\ created[1].tick = tick
    /\ created[2].tick = tick

\* the number n of the bullet object with this id (the n-th bullet created)
BulletNo(id) == CHOOSE n \in 1..Len(created) : BulletId(n) = id

MinOf(S) == CHOOSE k \in S : \A j \in S : k <= j

C7_Step ==
    AtBullet =>
        LET b    == Bullet_move(game_objects[it + 1])
            ms   == TheMob(game_objects).members
            ms2  == TheMob(game_objects').members
            hits == HitsOf(b, ms)
        IN  /\ Len(ms2) >= Len(ms) - 1
            /\ hits = {} => ms2 = ms
            /\ hits # {} =>
                  /\ Len(ms2) = Len(ms) - 1
                  /\ \A k \in 1..Len(ms2) :
                        ms2[k] = IF k < MinOf(hits) THEN ms[k] ELSE ms[k + 1]

C8_BulletMovesEveryTick ==
    pc = "draw" =>
        \A k \in Objs("Bullet") :
            LET b == game_objects[k]
                c == created[BulletNo(b.id)]
            IN  b.pos = <<c.pos[1], c.pos[2] - b.speed * (tick - c.tick + 1)>>

\* the event being dispatched is a fire event
Firing ==
    /\ pc = "dispatch"
    /\ Head(events) = "KEYDOWN_SPACE"

C9_Step ==
    /\ pc = "dispatch" => it <= Len(before) + 1
    /\ (pc = "dispatch" /\ pc' = "events") =>
          IF Head(events) = "KEYDOWN_SPACE"
          THEN /\ Len(game_objects) = Len(before) + 1
               /\ SubSeq(game_objects, 1, Len(before)) = before
               /\ LET b == game_objects[Len(game_objects)]
                      h == before[CHOOSE k \in 1..Len(before) : before[k].kind = "Hero"]
                  IN  /\ b.kind = "Bullet"
                      /\ b.pos = h.pos
                      /\ b.width = 5 /\ b.height = 10 /\ b.speed = 3
                      /\ b.id \notin Ids(before)
          ELSE game_objects = before

\* C9: dispatching one fire key-down event ends after at most one step per
\* entry of the grown collection, and leaves ctx.game_objects as it was with
\* exactly one new Bullet (width 5, height 10, speed 3, at the Hero's position)
\* appended; an event that is no fire event leaves the collection as it was.
C9_FireAppendsOneBullet == [][C9_Step]_vars

\* the dispatch of a fire event has run over the old entries and the new bullet
C9_Witness ==
    /\ Firing
    /\ it = Len(before) + 1
    /\ Len(game_objects) = Len(before) + 1
    /\ Len(before) >= 3

\* C10: ctx.game_objects holds exactly one Hero in every reachable state.
C10_ExactlyOneHero == Cardinality(Objs("Hero")) = 1

\* a bullet has been fired and has removed itself after the Mob moved, and
\* the one Hero is still there
C10_Witness ==
    /\ BulletJustRemoved
    /\ Len(created) = MaxBullets
    /\ Cardinality(Objs("Hero")) = 1

\* the next step of update's loop is the Hero.update
AtHero ==
    /\ pc = "update"
    /\ it < Len(game_objects)
    /\ game_objects[it + 1].kind = "Hero"

C11_Step ==
    AtHero =>
        LET h     == game_objects[it + 1]
            h2    == game_objects'[it + 1]
            left  == pressed'[1]
            right == pressed'[2]
        IN  /\ h2.pos[2] = h.pos[2]
            /\ h2.pos[1] - h.pos[1] = IF left /\ ~right THEN -3
                                      ELSE IF right /\ ~left THEN 3
                                      ELSE 0

\* C11: every Hero.update leaves the Hero's y alone and changes its x by -3
\* when only left is held, by +3 when only right is held and by 0 when both
\* or neither are held, wherever the Hero is: no screen edge stops it.
C11_HeroMovesUnclamped == [][C11_Step]_vars

\* right was held once more with the Hero already past the right screen edge
C11_Witness ==
    /\ game_objects[1].kind = "Hero"
    /\ game_objects[1].pos[1] > ScreenWidth + HeroStep
    /\ pressed = <<FALSE, TRUE>>

C12_Step ==
    AtMob =>
        LET mob == game_objects[it + 1]
            ms  == mob.members
            ms2 == game_objects'[it + 1].members
            Wrapped(k) == ms2[k].pos[1] < ms[k].pos[1]
        IN  \A j \in 1..Len(ms) :
                Wrapped(j) =>
                    /\ ms2[j].pos[2] = ms[j].pos[2] + mob.offset
                    /\ \A k \in 1..Len(ms) :
                          ~Wrapped(k) => ms2[k].pos[2] = ms[k].pos[2]

\* C12: in a Mob.update in which a member wraps, that member's y is stepped by
\* the offset and the y of every member that does not wrap in that update is
\* unchanged, so the members of the formation come to stand at different y.
C12_OnlyWrappingMemberSteps == [][C12_Step]_vars

\* a member has just wrapped and stepped, and another member is at another y
C12_Witness ==
    LET ms == TheMob(game_objects).members
    IN  \E j, k \in 1..Len(ms) :
            /\ ms[j].pos[1] < MobSpeed
            /\ ms[j].pos[2] = EnemyY0 + MobOffset
            /\ ms[k].pos[2] = EnemyY0

C13_Step ==
    LET ms  == TheMob(game_objects).members
        ms2 == TheMob(game_objects').members
    IN  /\ Len(ms2) <= Len(ms)
        /\ Ids(ms2) \subseteq Ids(ms)
        /\ Cardinality(Ids(ms2)) = Len(ms2)
        /\ Len(ms2) < Len(ms) => BulletWillHit

\* C13: over every step the number of members of mob.members never grows, no
\* member that is gone comes back (and none is there twice), and a member
\* goes only in a Bullet.update whose bullet intersects a member.
C13_MemberRemovalIrreversible == [][C13_Step]_vars

\* a member was destroyed and the tick has run on to its end without it
C13_Witness ==
    /\ pc = "throttle"
    /\ Len(TheMob(game_objects).members) = Len(EnemyX0) - 1
    /\ visited[Len(visited)] \in Ids(game_objects)

\* every entity with a get_rect, paired with the rectangle get_rect returns
EntityRects ==
    {<<game_objects[k], Hero_get_rect(game_objects[k])>> : k \in Objs("Hero")}
    \cup {<<game_objects[k], Bullet_get_rect(game_objects[k])>> : k \in Objs("Bullet")}
    \cup {<<e, Enemy_get_rect(e)>> :
             e \in {TheMob(game_objects).members[k] :
                       k \in 1..Len(TheMob(game_objects).members)}}

HalfTowardZero(a, v) ==
    \/ 2 * v = a
    \/ a > 0 /\ 2 * v = a - 1
    \/ a < 0 /\ 2 * v = a + 1

C14_Step ==
    /\ \A er \in EntityRects :
          LET e == er[1]
              r == er[2]
          IN  /\ HalfTowardZero(2 * e.pos[1] - e.width, r.x)
              /\ HalfTowardZero(2 * e.pos[2] - e.height, r.y)
              /\ r.w = e.width
              /\ r.h = e.height
    /\ pc = "draw" => game_objects' = game_objects

C15_MobAlwaysFound ==
    /\ FindMob(game_objects) # 0
    /\ pc # "crashed"

\* a Bullet.update has just run, and left its bullet in place, while the Mob
\* had no member left
C15_Witness ==
    /\ pc = "update"
    /\ visited # <<>>
    /\ visited[Len(visited)] > MobId
    /\ visited[Len(visited)] \in Ids(game_objects)
    /\ FindMob(game_objects) # 0
    /\ game_objects[FindMob(game_objects)].members = <<>>

\* the bullets after the one about to be updated that, once moved, intersect
\* member e as well
Rivals(e) ==
    {k \in Objs("Bullet") :
        /\ k > it + 1
        /\ colliderect(Bullet_get_rect(Bullet_move(game_objects[k])), Enemy_get_rect(e))}

MemberIds(ms) == {ms[k].id : k \in 1..Len(ms)}

C16_Step ==
    AtBullet =>
        LET b   == game_objects[it + 1]
            ms  == TheMob(game_objects).members
            ms2 == TheMob(game_objects').members
            gone == Ids(game_objects) \ Ids(game_objects')
        IN  /\ gone \subseteq {b.id}
            /\ gone # {} => BulletWillHit
            /\ BulletWillHit =>
                  LET e == ms[MinOf(HitsOf(Bullet_move(b), ms))]
                  IN  /\ gone = {b.id}
                      /\ MemberIds(ms2) = MemberIds(ms) \ {e.id}
                      /\ Len(ms2) = Len(ms) - 1
                      /\ \A k \in Rivals(e) : game_objects[k].id \in Ids(game_objects')

\* C16: when two live bullets both reach the same member in one tick, the
\* member is destroyed once, by the bullet earlier in ctx.game_objects, which
\* alone is removed with it; the later bullet stays in the collection, and a
\* bullet is only ever removed for a member that is in mob.members when that
\* bullet's own update runs (the earlier removal is visible to it).
C16_EarlierBulletTakesMember == [][C16_Step]_vars

\* two bullets fired in the same tick from the same place: the first has just
\* been removed with the member, the second is still in the collection
C16_Witness ==
    /\ BulletJustRemoved
    /\ Len(created) = 2
    /\ created[1] = created[2]
    /\ visited[Len(visited)] = BulletId(1)
    /\ BulletId(2) \in Ids(game_objects)
    /\ Len(TheMob(game_objects).members) = Len(EnemyX0) - 1

\* the last state of the long run: tick LongTicks has been drawn
LongRunEnd == pc = "throttle" /\ tick = LongTicks

\* C17: the loop has no terminal state other than quit: in every reachable
\* state in which no QUIT event has been delivered the process has not failed
\* and the next step of the loop is enabled, so the tick is completed and
\* another one follows (up to the end of the run), also when every member of
\* the Mob has been destroyed and when members have stepped down below the
\* Hero and the bottom edge of the screen.
C17_LoopNeverStops ==
    /\ pc \notin {"crashed", "exited"}
    /\ ~LongRunEnd => ENABLED LongNext

\* a tick begins after the members went down to y = 285, below the Hero and
\* across the bottom edge, and all of them have been destroyed since
C17_Witness ==
    /\ pc = "poll"
    /\ tick > FireFrom
    /\ TheMob(game_objects).members = <<>>
    /\ Len(created) - Cardinality(Objs("Bullet")) = Len(EnemyX0)

DestroyedMembers == Len(EnemyX0) - Len(TheMob(game_objects).members)

RemovedBullets == Len(created) - Cardinality(Objs("Bullet"))

C19_HeroMobThenBullets ==
    /\ Len(game_objects) >= 2
    /\ game_objects[1].kind = "Hero"
    /\ game_objects[2].kind = "Mob"
    /\ \A k \in 3..Len(game_objects) :
          /\ game_objects[k].kind = "Bullet"
          /\ \A j \in 3..(k - 1) :
                BulletNo(game_objects[j].id) < BulletNo(game_objects[k].id)
    /\ pc \in {"update", "draw"} =>
          /\ Len(visited) >= 1 => visited[1] = HeroId
          /\ Len(visited) >= 2 => visited[2] = MobId
          /\ \A j \in 3..Len(visited) : visited[j] > MobId
    /\ AtBullet => Len(visited) >= 2

\* the second of two bullets is about to be updated, after the Hero, the Mob
\* and the first bullet
C19_Witness ==
    /\ AtBullet
    /\ it = 3
    /\ visited = <<HeroId, MobId, BulletId(1)>>
    /\ game_objects[4].id = BulletId(2)

=============================================================================
